---- MODULE Spec2Model ----
(***************************************************************************)
(* vice-default-backend: the request classification of App.RouteRequest    *)
(* (main.go).  Strings are sequences of one-character strings so that the  *)
(* splitting, pattern matching, URL parsing and escaping of the handler    *)
(* are computed the way the code computes them.                            *)
(***************************************************************************)
EXTENDS Integers, Sequences, FiniteSets, TLC

VARIABLES
    cfg,          \* the App struct: viceDomain, disableCustomHeaderMatch
    r,            \* the request being handled (Host, TLS, URL.Path, URL.RawQuery, X-Frontend-Url)
    pc,           \* position inside RouteRequest
    frontendURI,  \* local of RouteRequest
    frontendHost, \* local of RouteRequest
    matches,      \* local of RouteRequest: result of AddressMatches
    subdomain,    \* local of RouteRequest
    exists,       \* local of RouteRequest: first result of lookupSubdomain
    err,          \* local of RouteRequest: the error of the last call
    lookups,      \* the subdomains handed to lookupSubdomain for this request
    w             \* the responses written to the http.ResponseWriter for this request

vars == <<cfg, r, pc, frontendURI, frontendHost, matches, subdomain, exists, err, lookups, w>>

-----------------------------------------------------------------------------
(* Bounds *)

MaxPrefixTokens == 2

-----------------------------------------------------------------------------
(* Characters and string helpers (package strings) *)

Letters ==
    {"a","b","c","d","e","f","g","h","i","j","k","l","m","n","o","p","q","r","s","t","u","v","w","x","y","z",
     "A","B","C","D","E","F"}

Digits == {"0","1","2","3","4","5","6","7","8","9"}

Empty == << >>

HasPrefix(s, p) == Len(s) >= Len(p) /\ SubSeq(s, 1, Len(p)) = p

Drop(s, n) == SubSeq(s, n + 1, Len(s))

\* strings.Index for a one-character separator; 0 when absent
IndexOf(s, c) ==
    IF \E i \in 1..Len(s) : s[i] = c
    THEN CHOOSE i \in 1..Len(s) : s[i] = c /\ \A j \in 1..(i - 1) : s[j] # c
    ELSE 0

\* strings.LastIndex for a one-character separator; 0 when absent
LastIndexOf(s, c) ==
    IF \E i \in 1..Len(s) : s[i] = c
    THEN CHOOSE i \in 1..Len(s) : s[i] = c /\ \A j \in (i + 1)..Len(s) : s[j] # c
    ELSE 0

RECURSIVE Split(_, _)
Split(s, sep) ==
    LET i == IndexOf(s, sep)
    IN  IF i = 0 THEN <<s>>
        ELSE <<SubSeq(s, 1, i - 1)>> \o Split(Drop(s, i), sep)

RECURSIVE Join(_, _)
Join(fields, sep) ==
    IF Len(fields) = 0 THEN Empty
    ELSE IF Len(fields) = 1 THEN fields[1]
    ELSE fields[1] \o <<sep>> \o Join(Tail(fields), sep)

RECURSIVE Flatten(_)
Flatten(ss) == IF Len(ss) = 0 THEN Empty ELSE Head(ss) \o Flatten(Tail(ss))

-----------------------------------------------------------------------------
(* Status codes of net/http used by the handler *)

StatusTemporaryRedirect == 307
StatusBadRequest == 400
StatusInternalServerError == 500

-----------------------------------------------------------------------------
(* Configuration: the flag defaults of main() and the domains the          *)
(* --vice-domain flag is set to                                            *)

CyverseRun == <<"c","y","v","e","r","s","e",".","r","u","n">>

DeCyverseRun == <<"d","e",".","c","y","v","e","r","s","e",".","r","u","n">>

ViceDomains == {CyverseRun, DeCyverseRun}

landingPageURL == <<"h","t","t","p","s",":","/","/","c","y","v","e","r","s","e",".","r","u","n">>

loadingPageURL ==
    <<"h","t","t","p","s",":","/","/","l","o","a","d","i","n","g",".","c","y","v","e","r","s","e",".","r","u","n">>

\* filepath.Join("./static", "404.html")
notFoundPath == <<"s","t","a","t","i","c","/","4","0","4",".","h","t","m","l">>

Www == <<"w","w","w">>

-----------------------------------------------------------------------------
(* net/url as the handler uses it *)

NoURL == [err |-> TRUE, Scheme |-> Empty, Opaque |-> Empty, Host |-> Empty, Path |-> Empty, RawQuery |-> Empty]

\* url.getScheme: [scheme, rest, err]
GetScheme(rawURL) ==
    LET stop(i) == ~(rawURL[i] \in Letters) /\ ~(i > 1 /\ rawURL[i] \in Digits \cup {"+", "-", "."})
        n == Len(rawURL)
    IN  IF \E i \in 1..n : stop(i)
        THEN LET i == CHOOSE k \in 1..n : stop(k) /\ \A j \in 1..(k - 1) : ~stop(j)
             IN  IF rawURL[i] = ":"
                 THEN IF i = 1
                      THEN [scheme |-> Empty, rest |-> Empty, err |-> TRUE]
                      ELSE [scheme |-> SubSeq(rawURL, 1, i - 1), rest |-> Drop(rawURL, i), err |-> FALSE]
                 ELSE [scheme |-> Empty, rest |-> rawURL, err |-> FALSE]
        ELSE [scheme |-> Empty, rest |-> rawURL, err |-> FALSE]

\* url.validOptionalPort
ValidOptionalPort(port) ==
    \/ port = Empty
    \/ /\ port[1] = ":"
       /\ \A i \in 2..Len(port) : port[i] \in Digits

\* url.parseHost for a host without brackets
ValidHost(host) ==
    LET i == LastIndexOf(host, ":")
    IN  i = 0 \/ ValidOptionalPort(SubSeq(host, i, Len(host)))

\* url.Parse (no fragment, no userinfo in the strings the handler sees)
ParseURL(rawURL) ==
    LET s     == GetScheme(rawURL)
        q     == IndexOf(s.rest, "?")
        rest  == IF q = 0 THEN s.rest ELSE SubSeq(s.rest, 1, q - 1)
        query == IF q = 0 THEN Empty ELSE Drop(s.rest, q)
        slash == HasPrefix(rest, <<"/">>)
        seg   == IF IndexOf(rest, "/") = 0 THEN rest ELSE SubSeq(rest, 1, IndexOf(rest, "/") - 1)
        auth  == HasPrefix(rest, <<"/", "/">>) /\ (s.scheme # Empty \/ ~HasPrefix(rest, <<"/", "/", "/">>))
        after == Drop(rest, 2)
        cut   == IndexOf(after, "/")
        host  == IF cut = 0 THEN after ELSE SubSeq(after, 1, cut - 1)
        path  == IF cut = 0 THEN Empty ELSE Drop(after, cut - 1)
    IN  IF s.err THEN NoURL
        ELSE IF ~slash /\ s.scheme # Empty
        THEN [err |-> FALSE, Scheme |-> s.scheme, Opaque |-> rest, Host |-> Empty, Path |-> Empty, RawQuery |-> query]
        ELSE IF ~slash /\ IndexOf(seg, ":") # 0 THEN NoURL
        ELSE IF auth
        THEN IF ValidHost(host)
             THEN [err |-> FALSE, Scheme |-> s.scheme, Opaque |-> Empty, Host |-> host, Path |-> path, RawQuery |-> query]
             ELSE NoURL
        ELSE [err |-> FALSE, Scheme |-> s.scheme, Opaque |-> Empty, Host |-> Empty, Path |-> rest, RawQuery |-> query]

\* (*url.URL).String
URLString(u) ==
    LET scheme == IF u.Scheme = Empty THEN Empty ELSE u.Scheme \o <<":">>
        slashes == IF (u.Scheme # Empty \/ u.Host # Empty) /\ (u.Host # Empty \/ u.Path # Empty)
                   THEN <<"/", "/">> ELSE Empty
        path   == IF u.Path # Empty /\ u.Path[1] # "/" /\ u.Host # Empty THEN <<"/">> \o u.Path ELSE u.Path
        query  == IF u.RawQuery = Empty THEN Empty ELSE <<"?">> \o u.RawQuery
    IN  IF u.Opaque # Empty THEN scheme \o u.Opaque \o query
        ELSE scheme \o slashes \o u.Host \o path \o query

HexOf(c) ==
    CASE c = ":" -> <<"%", "3", "A">>
      [] c = "/" -> <<"%", "2", "F">>
      [] c = "?" -> <<"%", "3", "F">>
      [] c = "=" -> <<"%", "3", "D">>
      [] c = "%" -> <<"%", "2", "5">>
      [] c = "+" -> <<"%", "2", "B">>
      [] OTHER   -> <<c>>

\* url.QueryEscape: unreserved characters stay, the others become %XX
QueryEscape(s) ==
    Flatten([i \in 1..Len(s) |->
        IF s[i] \in Letters \cup Digits \cup {"-", "_", ".", "~"} THEN <<s[i]>> ELSE HexOf(s[i])])

\* loadingURL.Query(); q.Set("url", v); loadingURL.RawQuery = q.Encode()
\* (the configured loading page URL carries no query of its own)
SetURLParam(u, v) == [u EXCEPT !.RawQuery = <<"u","r","l","=">> \o QueryEscape(v)]

\* path.Split(oldpath): the directory part, with its trailing slash
OldDir(oldpath) ==
    LET p == IF oldpath = Empty THEN <<"/">> ELSE oldpath
    IN  SubSeq(p, 1, LastIndexOf(p, "/"))

\* http.Redirect: the Location header for target url on request req
RedirectLocation(req, url) ==
    LET u == ParseURL(url)
    IN  IF ~u.err /\ u.Scheme = Empty /\ (url = Empty \/ url[1] # "/")
        THEN OldDir(req.Path) \o url
        ELSE url

-----------------------------------------------------------------------------
(* The requests the server receives *)

PrefixTokens == {<<"a">>, <<"a", ".">>, <<"w", "w", "w", ".">>, <<".">>}

Prefixes ==
    UNION {{Flatten(t) : t \in [1..n -> PrefixTokens]} : n \in 0..MaxPrefixTokens}

XRun == <<"x", ".", "r", "u", "n">>

PortSuffixes == {Empty, <<":", "8">>}

Hosts == {p \o c \o s : p \in Prefixes, c \in ViceDomains \cup {XRun}, s \in PortSuffixes}

Targets ==
    {[Path |-> <<"/">>, RawQuery |-> Empty],
     [Path |-> <<"/", "a", "/", "b">>, RawQuery |-> Empty],
     [Path |-> <<"/", "a">>, RawQuery |-> <<"q", "=", "1">>]}

HeaderKinds == {"absent", "malformed", "url"}

SchemeOf(tls) == IF tls THEN <<"h","t","t","p","s">> ELSE <<"h","t","t","p">>

\* what the ingress puts into X-Frontend-Url for the client's request
HeaderValue(kind, host, tls, t) ==
    CASE kind = "absent"    -> Empty
      [] kind = "malformed" -> <<":", "/", "/">> \o host
      [] kind = "url"       -> URLString([Scheme |-> SchemeOf(tls), Opaque |-> Empty, Host |-> host,
                                          Path |-> t.Path, RawQuery |-> t.RawQuery])

NoRequest == [Host |-> Empty, TLS |-> FALSE, Path |-> Empty, RawQuery |-> Empty, XFrontendUrl |-> Empty]

Requests ==
    {[Host |-> h, TLS |-> tls, Path |-> t.Path, RawQuery |-> t.RawQuery,
      XFrontendUrl |-> HeaderValue(k, h, tls, t)] :
        h \in Hosts, tls \in BOOLEAN, t \in Targets, k \in HeaderKinds}

\* what client.Run leaves behind: a transport error, or the decoded data map
GraphQLReplies ==
    {[runErr |-> TRUE,  hasJobs |-> FALSE, jobs |-> 0],
     [runErr |-> FALSE, hasJobs |-> FALSE, jobs |-> 0],
     [runErr |-> FALSE, hasJobs |-> TRUE,  jobs |-> 0],
     [runErr |-> FALSE, hasJobs |-> TRUE,  jobs |-> 1]}

-----------------------------------------------------------------------------
(* The functions of main.go *)

\* extractSubdomain keeping only the first label
extractSubdomainFirstLabel(addr) ==
    LET fields == Split(addr, ".")
    IN  IF Len(fields) < 2 THEN Empty
        ELSE IF Len(fields) = 2
        THEN IF fields[1] = Www THEN Empty ELSE fields[1]
        ELSE fields[1]

\* extractSubdomain (its error result is always nil)
extractSubdomain(addr) ==
    LET fields == Split(addr, ".")
    IN  IF Len(fields) < 2 THEN Empty
        ELSE IF Len(fields) = 2
        THEN IF fields[1] = Www THEN Empty ELSE fields[1]
        ELSE Join(SubSeq(fields, 1, Len(fields) - 2), ".")

\* FrontendAddress that builds the address from the Host header whatever the flag says
FrontendAddressAlwaysHost(a, req) ==
    URLString([Scheme |-> SchemeOf(req.TLS), Opaque |-> Empty, Host |-> req.Host,
               Path |-> req.Path, RawQuery |-> req.RawQuery])

\* App.FrontendAddress
FrontendAddress(a, req) ==
    IF a.disableCustomHeaderMatch
    THEN URLString([Scheme |-> SchemeOf(req.TLS), Opaque |-> Empty, Host |-> req.Host,
                    Path |-> req.Path, RawQuery |-> req.RawQuery])
    ELSE req.XFrontendUrl

\* the group (a.*\.) matched against s
MatchesLeadGroup(s) == Len(s) >= 2 /\ s[1] = "a" /\ s[Len(s)] = "."

\* the group (:[0-9]+) matched against s
MatchesPortGroup(s) == Len(s) >= 2 /\ s[1] = ":" /\ \A i \in 2..Len(s) : s[i] \in Digits

\* App.AddressMatches: regexp.MatchString("(a.*\.)?\Q<viceDomain>\E(:[0-9]+)?", addr),
\* which searches addr for a substring the pattern matches.  i..k-1 is the
\* optional leading group, k.. the quoted domain, then the optional port up to j.
\* The pattern always compiles for the domains configured, so err is nil.
AddressMatches(a, addr) ==
    LET d == a.viceDomain
        n == Len(addr)
    IN  \E k \in 1..(n - Len(d) + 1) :
            /\ SubSeq(addr, k, k + Len(d) - 1) = d
            /\ \E i \in 1..k : i = k \/ MatchesLeadGroup(SubSeq(addr, i, k - 1))
            /\ \E j \in (k + Len(d) - 1)..n :
                    j = k + Len(d) - 1 \/ MatchesPortGroup(SubSeq(addr, k + Len(d), j))

\* App.lookupSubdomain on the reply of the graphql service
lookupSubdomain(reply) ==
    IF reply.runErr THEN [exists |-> FALSE, err |-> "graphql"]
    ELSE IF ~reply.hasJobs THEN [exists |-> FALSE, err |-> "missing jobs"]
    ELSE IF reply.jobs < 1 THEN [exists |-> FALSE, err |-> "nil"]
    ELSE [exists |-> TRUE, err |-> "nil"]

HttpError(code) == [kind |-> "error", status |-> code, location |-> Empty]

HttpRedirect(req, url, code) == [kind |-> "redirect", status |-> code, location |-> RedirectLocation(req, url)]

-----------------------------------------------------------------------------
(* App.RouteRequest, one action per stretch of the handler between calls *)

Init ==
    /\ cfg \in [viceDomain : ViceDomains, disableCustomHeaderMatch : BOOLEAN]
    /\ r = NoRequest
    /\ pc = "idle"
    /\ frontendURI = Empty
    /\ frontendHost = Empty
    /\ matches = FALSE
    /\ subdomain = Empty
    /\ exists = FALSE
    /\ err = "nil"
    /\ lookups = << >>
    /\ w = << >>

\* the router hands a request to app.RouteRequest
Receive ==
    /\ pc = "idle"
    /\ \E req \in Requests : r' = req
    /\ pc' = "resolve"
    /\ UNCHANGED <<cfg, frontendURI, frontendHost, matches, subdomain, exists, err, lookups, w>>

\* lines 121-129
ResolveAddress ==
    /\ pc = "resolve"
    /\ LET uri == FrontendAddress(cfg, r)
           u   == ParseURL(uri)
       IN  /\ frontendURI' = uri
           /\ IF u.err
              THEN /\ err' = "parse"
                   /\ w' = Append(w, HttpError(StatusInternalServerError))
                   /\ pc' = "done"
                   /\ UNCHANGED frontendHost
              ELSE /\ frontendHost' = u.Host
                   /\ pc' = "match"
                   /\ UNCHANGED <<err, w>>
    /\ UNCHANGED <<cfg, r, matches, subdomain, exists, lookups>>

\* lines 131-139 with the 400 branch skipped
CheckDomainNoReject ==
    /\ pc = "match"
    /\ matches' = AddressMatches(cfg, frontendHost)
    /\ pc' = "extract"
    /\ UNCHANGED <<cfg, r, frontendURI, frontendHost, subdomain, exists, err, lookups, w>>

\* lines 131-139
CheckDomain ==
    /\ pc = "match"
    /\ matches' = AddressMatches(cfg, frontendHost)
    /\ IF ~matches'
       THEN /\ w' = Append(w, HttpError(StatusBadRequest))
            /\ pc' = "done"
       ELSE /\ pc' = "extract"
            /\ UNCHANGED w
    /\ UNCHANGED <<cfg, r, frontendURI, frontendHost, subdomain, exists, err, lookups>>

\* lines 141-149 without the landing page shortcut
ExtractSubdomainNoLanding ==
    /\ pc = "extract"
    /\ subdomain' = extractSubdomain(frontendHost)
    /\ pc' = "lookup"
    /\ UNCHANGED <<cfg, r, frontendURI, frontendHost, matches, exists, err, lookups, w>>

\* lines 141-149
ExtractSubdomain ==
    /\ pc = "extract"
    /\ subdomain' = extractSubdomain(frontendHost)
    /\ IF subdomain' = Empty
       THEN /\ w' = Append(w, HttpRedirect(r, landingPageURL, StatusTemporaryRedirect))
            /\ pc' = "done"
       ELSE /\ pc' = "lookup"
            /\ UNCHANGED w
    /\ UNCHANGED <<cfg, r, frontendURI, frontendHost, matches, exists, err, lookups>>

\* lines 151-152: the call of lookupSubdomain and the reply of the graphql service
LookupSubdomain ==
    /\ pc = "lookup"
    /\ lookups' = Append(lookups, subdomain)
    /\ \E reply \in GraphQLReplies :
          LET res == lookupSubdomain(reply)
          IN  /\ exists' = res.exists
              /\ err' = res.err
    /\ pc' = "plan"
    /\ UNCHANGED <<cfg, r, frontendURI, frontendHost, matches, subdomain, w>>

\* the loading page redirect of lines 159-167
LoadingRedirect ==
    LET loadingURL == ParseURL(loadingPageURL)
    IN  IF loadingURL.err
        THEN HttpError(StatusInternalServerError)
        ELSE HttpRedirect(r, URLString(SetURLParam(loadingURL, frontendURI)), StatusTemporaryRedirect)

\* lines 153-171 with the error of the lookup ignored
PlanRedirectIgnoresErr ==
    /\ pc = "plan"
    /\ IF exists
       THEN w' = Append(w, LoadingRedirect)
       ELSE w' = Append(w, HttpRedirect(r, notFoundPath, StatusTemporaryRedirect))
    /\ pc' = "done"
    /\ UNCHANGED <<cfg, r, frontendURI, frontendHost, matches, subdomain, exists, err, lookups>>

\* lines 153-171 with the last redirect going to the landing page
PlanRedirectNotFoundToLanding ==
    /\ pc = "plan"
    /\ IF err # "nil"
       THEN w' = Append(w, HttpError(StatusInternalServerError))
       ELSE IF exists
       THEN w' = Append(w, LoadingRedirect)
       ELSE w' = Append(w, HttpRedirect(r, landingPageURL, StatusTemporaryRedirect))
    /\ pc' = "done"
    /\ UNCHANGED <<cfg, r, frontendURI, frontendHost, matches, subdomain, exists, err, lookups>>

\* lines 153-171 without the return of line 168
PlanRedirectFallsThrough ==
    /\ pc = "plan"
    /\ IF err # "nil"
       THEN w' = Append(w, HttpError(StatusInternalServerError))
       ELSE IF exists
       THEN w' = Append(Append(w, LoadingRedirect), HttpRedirect(r, notFoundPath, StatusTemporaryRedirect))
       ELSE w' = Append(w, HttpRedirect(r, notFoundPath, StatusTemporaryRedirect))
    /\ pc' = "done"
    /\ UNCHANGED <<cfg, r, frontendURI, frontendHost, matches, subdomain, exists, err, lookups>>

\* lines 153-171
PlanRedirect ==
    /\ pc = "plan"
    /\ IF err # "nil"
       THEN w' = Append(w, HttpError(StatusInternalServerError))
       ELSE IF exists
       THEN w' = Append(w, LoadingRedirect)
       ELSE w' = Append(w, HttpRedirect(r, notFoundPath, StatusTemporaryRedirect))
    /\ pc' = "done"
    /\ UNCHANGED <<cfg, r, frontendURI, frontendHost, matches, subdomain, exists, err, lookups>>

\* RouteRequest has returned; the server is ready for the next request
Finish ==
    /\ pc = "done"
    /\ r' = NoRequest
    /\ pc' = "idle"
    /\ frontendURI' = Empty
    /\ frontendHost' = Empty
    /\ matches' = FALSE
    /\ subdomain' = Empty
    /\ exists' = FALSE
    /\ err' = "nil"
    /\ lookups' = << >>
    /\ w' = << >>
    /\ UNCHANGED cfg

Next ==
    \/ Receive
    \/ ResolveAddress
    \/ CheckDomain
    \/ ExtractSubdomain
    \/ LookupSubdomain
    \/ PlanRedirect
    \/ Finish

Spec == Init /\ [][Next]_vars

-----------------------------------------------------------------------------
(* Vocabulary of the properties *)

TypeOK ==
    /\ pc \in {"idle", "resolve", "match", "extract", "lookup", "plan", "done"}
    /\ cfg \in [viceDomain : ViceDomains, disableCustomHeaderMatch : BOOLEAN]
    /\ r \in Requests \cup {NoRequest}
    /\ matches \in BOOLEAN
    /\ exists \in BOOLEAN
    /\ err \in {"nil", "parse", "graphql", "missing jobs"}

\* s is ":" followed by one or more digits
IsPort(s) == Len(s) >= 2 /\ s[1] = ":" /\ \A i \in 2..Len(s) : s[i] \in Digits

\* s is one or more non-empty labels joined by "."
IsLabels(s) ==
    /\ Len(s) >= 1
    /\ s[1] # "." /\ s[Len(s)] # "."
    /\ \A i \in 1..Len(s) : s[i] # ":" /\ s[i] # "/"
    /\ \A i \in 1..(Len(s) - 1) : ~(s[i] = "." /\ s[i + 1] = ".")

\* h is d or d behind a "." that closes the labels before it, with an optional port
InDomain(h, d) ==
    \E k \in 1..Len(h) :
        /\ k + Len(d) - 1 <= Len(h)
        /\ SubSeq(h, k, k + Len(d) - 1) = d
        /\ k = 1 \/ h[k - 1] = "."
        /\ LET rest == Drop(h, k + Len(d) - 1) IN rest = Empty \/ IsPort(rest)

\* h is sub "." d with an optional port
IsSubOf(h, sub, d) ==
    /\ HasPrefix(h, sub \o <<".">> \o d)
    /\ LET rest == Drop(h, Len(sub) + 1 + Len(d)) IN rest = Empty \/ IsPort(rest)

TwoLabels(d) == Cardinality({i \in 1..Len(d) : d[i] = "."}) = 1

RECURSIVE QueryUnescape(_)
QueryUnescape(s) ==
    IF Len(s) = 0 THEN Empty
    ELSE IF s[1] = "%" /\ Len(s) >= 3
    THEN LET h == <<s[2], s[3]>>
             c == CASE h = <<"3", "A">> -> ":"
                    [] h = <<"2", "F">> -> "/"
                    [] h = <<"3", "F">> -> "?"
                    [] h = <<"3", "D">> -> "="
                    [] h = <<"2", "5">> -> "%"
                    [] h = <<"2", "B">> -> "+"
                    [] OTHER -> "!"
         IN  <<c>> \o QueryUnescape(Drop(s, 3))
    ELSE <<s[1]>> \o QueryUnescape(Tail(s))

HasSuffix(s, p) == Len(s) >= Len(p) /\ SubSeq(s, Len(s) - Len(p) + 1, Len(s)) = p

LoadingPrefix == loadingPageURL \o <<"?", "u", "r", "l", "=">>

IsError(resp)    == resp.kind = "error" /\ resp.status \in {StatusBadRequest, StatusInternalServerError}
IsLanding(resp)  == resp.kind = "redirect" /\ resp.location = landingPageURL
IsLoading(resp)  == resp.kind = "redirect" /\ HasPrefix(resp.location, LoadingPrefix)
IsNotFound(resp) == resp.kind = "redirect" /\ HasSuffix(resp.location, notFoundPath)

OutcomesOf(resp) ==
    {o \in {"Loading", "Landing", "NotFound", "Error"} :
        \/ o = "Loading" /\ IsLoading(resp)
        \/ o = "Landing" /\ IsLanding(resp)
        \/ o = "NotFound" /\ IsNotFound(resp)
        \/ o = "Error" /\ IsError(resp)}

\* AddressMatches has been called for the request and has returned
DomainChecked == pc \in {"extract", "lookup", "plan"} \/ (pc = "done" /\ err # "parse")

\* extractSubdomain has been called for the request and has returned
Extracted == matches /\ pc \in {"lookup", "plan", "done"}

\* lookupSubdomain has been called for the request and has returned
LookedUp == pc \in {"plan", "done"} /\ Len(lookups) > 0

-----------------------------------------------------------------------------
(* Properties *)

\* C1: a host that is neither the configured parent domain nor a label-boundary
\* subdomain of it (optionally with :port) is not matched by AddressMatches;
\* a sibling that only shares a suffix substring with the parent does not match.
C1_OutsideDomainNeverMatches ==
    (DomainChecked /\ ~InDomain(frontendHost, cfg.viceDomain)) => ~matches

\* C2: for the resolved host www.{parent} or the bare {parent}, extractSubdomain
\* returns the empty string, the request is redirected to the landing page and
\* no existence lookup is made.
C2_BareAndWwwGoToLanding ==
    (Extracted /\ frontendHost \in {cfg.viceDomain, Www \o <<".">> \o cfg.viceDomain})
        => /\ subdomain = Empty
           /\ lookups = << >>
           /\ pc = "done"
           /\ Len(w) = 1 /\ IsLanding(w[1])

\* C3 as stated: when the lookup returns (false, nil) the not-found page is
\* served by the handler itself and the answer is not an HTTP redirect.
C3_NotFoundIsNotARedirect ==
    (pc = "done" /\ LookedUp /\ err = "nil" /\ ~exists)
        => (Len(w) = 1 /\ w[1].kind # "redirect")

\* C3 amended: when the lookup returns (false, nil) the handler answers with a
\* 307 redirect to the not-found path and with nothing else.
C3_NotFoundIsRedirectToNotFoundPath ==
    (pc = "done" /\ LookedUp /\ err = "nil" /\ ~exists)
        => /\ Len(w) = 1
           /\ w[1].kind = "redirect"
           /\ w[1].status = StatusTemporaryRedirect
           /\ HasSuffix(w[1].location, notFoundPath)
           /\ ~IsLoading(w[1]) /\ ~IsLanding(w[1])

C3_Witness ==
    pc = "done" /\ LookedUp /\ err = "nil" /\ ~exists /\ Len(w) = 1 /\ IsNotFound(w[1])

\* C4: whenever the extracted subdomain is empty the request ends as a 307
\* redirect to the landing page URL with no parameter, and lookupSubdomain is
\* called zero times.
C4_EmptySubdomainIsLandingWithoutLookup ==
    (Extracted /\ subdomain = Empty)
        => /\ pc = "done"
           /\ lookups = << >>
           /\ w = <<[kind |-> "redirect", status |-> StatusTemporaryRedirect, location |-> landingPageURL]>>

C4_Witness ==
    Extracted /\ subdomain = Empty /\ pc = "done" /\ frontendHost # Empty

\* C5: whenever lookupSubdomain returns an error (transport failure or missing
\* jobs field) the request ends with HTTP 500, never as NotFound or Loading.
C5_LookupErrorIsInternalError ==
    (pc = "done" /\ LookedUp /\ err # "nil")
        => /\ w = <<[kind |-> "error", status |-> StatusInternalServerError, location |-> Empty]>>
           /\ ~IsNotFound(w[1]) /\ ~IsLoading(w[1])

C5_WitnessTransport == pc = "done" /\ LookedUp /\ err = "graphql" /\ Len(w) = 1

C5_WitnessMissingJobs == pc = "done" /\ LookedUp /\ err = "missing jobs" /\ Len(w) = 1

\* C6: when the lookup returns (true, nil) for subdomain s the answer is a 307
\* redirect to the loading page URL whose url parameter is an address with host
\* s.<parent domain> and the request's path and raw query unmodified.
C6_LoadingCarriesAppURL ==
    (pc = "done" /\ LookedUp /\ err = "nil" /\ exists)
        => /\ Len(w) = 1
           /\ w[1].kind = "redirect"
           /\ w[1].status = StatusTemporaryRedirect
           /\ HasPrefix(w[1].location, LoadingPrefix)
           /\ LET appURL == ParseURL(QueryUnescape(Drop(w[1].location, Len(LoadingPrefix))))
              IN  /\ ~appURL.err
                  /\ \E k \in 0..Len(appURL.Host) :
                        /\ SubSeq(appURL.Host, 1, k) = subdomain \o <<".">> \o cfg.viceDomain
                        /\ (k = Len(appURL.Host) \/ IsPort(Drop(appURL.Host, k)))
                  /\ appURL.Path = r.Path
                  /\ appURL.RawQuery = r.RawQuery

\* C7: when the resolved host does not match the configured domain the request
\* ends with HTTP 400, before the subdomain is extracted and with no lookup.
C7_MismatchIsBadRequest ==
    (DomainChecked /\ ~matches)
        => /\ pc = "done"
           /\ w = <<[kind |-> "error", status |-> StatusBadRequest, location |-> Empty]>>
           /\ ~IsNotFound(w[1])
           /\ subdomain = Empty
           /\ lookups = << >>

C7_Witness ==
    pc = "done" /\ DomainChecked /\ ~matches /\ frontendHost # Empty /\ Len(w) = 1

HeaderAbsent == pc \notin {"idle", "resolve"} /\ ~cfg.disableCustomHeaderMatch /\ r.XFrontendUrl = Empty

\* C8 as stated: in header-trusted mode a request without X-Frontend-Url
\* resolves to the empty address and does not end in an Error outcome.
C8_AbsentHeaderIsNotAnError ==
    (HeaderAbsent /\ pc = "done")
        => /\ frontendURI = Empty
           /\ Len(w) = 1 /\ ~IsError(w[1])

\* C8 amended: in header-trusted mode a request without X-Frontend-Url resolves
\* to the empty address without a resolution error; the domain check treats the
\* empty host as a non-match and the request ends with the HTTP 400 of the
\* domain mismatch, with no lookup.
C8_AbsentHeaderIsMismatch ==
    HeaderAbsent
        => /\ frontendURI = Empty
           /\ frontendHost = Empty
           /\ err = "nil"
           /\ ~matches
           /\ lookups = << >>
           /\ pc \in {"match", "done"}
           /\ pc = "done" => w = <<[kind |-> "error", status |-> StatusBadRequest, location |-> Empty]>>

C8_Witness == HeaderAbsent /\ pc = "done" /\ r.Host # Empty /\ Len(w) = 1

\* C9 as stated: for every host {sub}.{parent}, sub being one or more labels
\* other than the lone www, with an optional port, extractSubdomain returns sub
\* exactly and that string is what lookupSubdomain is called with.
C9_SubdomainOfParent ==
    \A k \in 1..Len(frontendHost) :
        LET sub == SubSeq(frontendHost, 1, k)
        IN  (Extracted /\ IsLabels(sub) /\ sub # Www /\ IsSubOf(frontendHost, sub, cfg.viceDomain))
                => /\ subdomain = sub
                   /\ LookedUp => lookups = <<sub>>

\* C9 amended: the same for a configured parent domain of exactly two labels.
C9_SubdomainOfTwoLabelParent ==
    \A k \in 1..Len(frontendHost) :
        LET sub == SubSeq(frontendHost, 1, k)
        IN  (Extracted /\ TwoLabels(cfg.viceDomain)
               /\ IsLabels(sub) /\ sub # Www /\ IsSubOf(frontendHost, sub, cfg.viceDomain))
                => /\ subdomain = sub
                   /\ LookedUp => lookups = <<sub>>

C9_Witness ==
    /\ Extracted /\ LookedUp /\ TwoLabels(cfg.viceDomain)
    /\ \E k \in 1..Len(frontendHost) :
          LET sub == SubSeq(frontendHost, 1, k)
          IN  /\ IsLabels(sub) /\ IsSubOf(frontendHost, sub, cfg.viceDomain)
              /\ \E i \in 1..Len(sub) : sub[i] = "."
              /\ lookups = <<sub>>

\* C10: every request reaches exactly one outcome among Loading, Landing,
\* NotFound and Error: exactly one response is written on every path, and no
\* step of the handler runs after it.
C10_ExactlyOneOutcome ==
    /\ Len(w) <= 1
    /\ pc = "done" <=> Len(w) = 1
    /\ Len(w) = 1 => Cardinality(OutcomesOf(w[1])) = 1
    /\ Len(lookups) <= 1

C10_Witness == pc = "done" /\ Len(w) = 1 /\ IsLoading(w[1]) /\ Len(lookups) = 1

====
